---- MODULE Spec2Model ----
(***************************************************************************)
(* Model of limix/qtl/_st_scan.py: the single-trait scan st_scan and its   *)
(* two fitting helpers _perform_lmm and _perform_glmm.                     *)
(*                                                                         *)
(* One behaviour is one call of one of the three module-level functions.   *)
(* The external numerical routines (economic_qs, LMM, GLMMExpFam,          *)
(* GLMMNormal, the fast scanner) are modelled by the calls made to them:   *)
(* every call is appended to `log`, every model built is appended to       *)
(* `models` with the QS it was handed, and the values they return are      *)
(* symbolic terms naming what they were computed from.                     *)
(*                                                                         *)
(* Arrays are sequences of rows, a row is a sequence of values, and a      *)
(* value is one of the strings of Values.  `verbose` only drives display   *)
(* (session_block, session_line, print) and is left out.                   *)
(***************************************************************************)
EXTENDS Naturals, Sequences, FiniteSets

\* ------------------------------------------------------------------ bounds

\* Number of samples of a well-formed input.
Nsamples == 2
\* Largest number of candidate columns of G.
MaxCols == 2
\* Largest number of auxiliary entries after the likelihood name.
MaxAux == 2

\* ------------------------------------------------------------ option values

None == [isNone |-> TRUE, a |-> <<>>]
Some(x) == [isNone |-> FALSE, a |-> x]

\* ---------------------------------------------------------------- strings

\* A likelihood name is a sequence of one-character strings.
n_normal == <<"n", "o", "r", "m", "a", "l">>
n_bernoulli == <<"b", "e", "r", "n", "o", "u", "l", "l", "i">>
n_probit == <<"p", "r", "o", "b", "i", "t">>
n_binomial == <<"b", "i", "n", "o", "m", "i", "a", "l">>
n_poisson == <<"p", "o", "i", "s", "s", "o", "n">>
n_gamma == <<"g", "a", "m", "m", "a">>

UpperToLower ==
  [A |-> "a", B |-> "b", C |-> "c", D |-> "d", E |-> "e", F |-> "f", G |-> "g",
   H |-> "h", I |-> "i", J |-> "j", K |-> "k", L |-> "l", M |-> "m", N |-> "n",
   O |-> "o", P |-> "p", Q |-> "q", R |-> "r", S |-> "s", T |-> "t", U |-> "u",
   V |-> "v", W |-> "w", X |-> "x", Y |-> "y", Z |-> "z"]

LowerChar(c) == IF c \in DOMAIN UpperToLower THEN UpperToLower[c] ELSE c

\* str.lower()
Lower(s) == [k \in 1..Len(s) |-> LowerChar(s[k])]

\* CONF["likelihoods"]
CONF_likelihoods == {n_normal, n_bernoulli, n_probit, n_binomial, n_poisson}

\* Names bound in the namespace of module limix.qtl._st_scan once it is imported.
ModuleGlobals ==
  {"sys", "session_line", "conform_dataset", "session_block", "assert_likelihood",
   "normalise_extreme_values", "ScanResultFactory", "st_scan", "_perform_lmm",
   "_perform_glmm"}

\* ----------------------------------------------------------------- arrays

Values == {"1.0", "huge", "clipped", "nan", "inf", "-inf"}
NonFinite == {"nan", "inf", "-inf"}

\* numpy_sugar.is_all_finite on a two-dimensional array
is_all_finite(a) == \A k \in 1..Len(a) : \A j \in 1..Len(a[k]) : a[k][j] \notin NonFinite

\* An n-by-1 column of ones and an n-by-n matrix of ones.
Ones(n) == [k \in 1..n |-> <<"1.0">>]
Square(n) == [k \in 1..n |-> [j \in 1..n |-> "1.0"]]

\* A vector of n trial counts.
Trials(n) == [k \in 1..n |-> "5"]

\* ------------------------------------------------------------------ errors

NoError == ""
TypeError == "TypeError: can only concatenate tuple (not \"list\") to tuple"
InvalidLikelihoodError == "InvalidLikelihoodError"
DimensionMismatchError == "DimensionMismatchError"
ValueError_y == "ValueError: Outcome must have finite values only."
ValueError_M == "ValueError: Covariates must have finite values only."
ValueError_K == "ValueError: Covariate matrix must have finite values only."
NameError == "NameError: name 'ST_ScanResultFactory' is not defined"
NonConvergenceError == "NonConvergenceError"

\* The errors st_scan raises for non-finite input.
NonFiniteInputError == {ValueError_y, ValueError_M, ValueError_K}

\* ------------------------------------------------------------------ inputs

\* Outcomes: finite, with an extreme value, with a non-finite value, and one with a
\* sample too many.
YInputs ==
  {Ones(Nsamples),
   [Ones(Nsamples) EXCEPT ![Nsamples] = <<"huge">>],
   [Ones(Nsamples) EXCEPT ![1] = <<"nan">>],
   [Ones(Nsamples) EXCEPT ![Nsamples] = <<"inf">>],
   Ones(Nsamples + 1)}

MInputs == {None, Some(Ones(Nsamples)), Some([Ones(Nsamples) EXCEPT ![Nsamples] = <<"nan">>])}

KInputs ==
  {None, Some(Square(Nsamples)),
   Some([Square(Nsamples) EXCEPT ![1][Nsamples] = "nan"]),
   Some([Square(Nsamples) EXCEPT ![Nsamples][1] = "-inf"])}

Candidates == {"rs0", "rs1"}

SeqsUpTo(S, n) == UNION {[1..k -> S] : k \in 0..n}

\* G: its sample count and the labels of its candidate columns, in column order.
GInputs == {[sample |-> Nsamples, candidate |-> c] : c \in SeqsUpTo(Candidates, MaxCols)}

NameInputs ==
  {n_normal, <<"N", "o", "r", "m", "a", "l">>, n_bernoulli, n_probit, n_binomial,
   <<"B", "I", "N", "O", "M", "I", "A", "L">>, n_poisson,
   <<"P", "o", "i", "s", "s", "o", "n">>, n_gamma, <<"G", "a", "m", "m", "a">>}

AuxInputs == SeqsUpTo({Trials(Nsamples), Trials(Nsamples + 1)}, MaxAux)

\* lik as the caller passes it: a bare string, or a tuple or list (name, aux...).
LikInputs ==
  {[type |-> "str", items |-> <<n>>] : n \in NameInputs}
    \cup {[type |-> t, items |-> <<n>> \o x] :
            t \in {"tuple", "list"}, n \in NameInputs, x \in AuxInputs}

\* ------------------------------------------------------------------- state

VARIABLES
  entry,     \* the function that was called: "none", "st_scan", "_perform_lmm", "_perform_glmm"
  pc,        \* position in the code (the line about to run), "idle" or "done"
  args,      \* the arguments of the call, as passed
  lik,       \* local lik
  lik_name,  \* local lik_name
  y, M, G, K,\* locals y, M, G, K
  QS,        \* local QS: None or the decomposition of a covariance matrix
  r,         \* the result factory
  glmm,      \* the generalized model's state: fitted, site parameters read
  flmm,      \* the fast scanner and its scale
  null_lml,  \* local null_lml
  scanned,   \* locals alt_lmls, effsizes
  i,         \* loop index of the add_test loop
  log,       \* calls made to external routines and to the factory, in order
  models,    \* models built, each with the QS it was handed
  ret,       \* value returned, None until the call returns
  err        \* exception raised, NoError until the call raises

vars ==
  <<entry, pc, args, lik, lik_name, y, M, G, K, QS, r, glmm, flmm, null_lml,
    scanned, i, log, models, ret, err>>

fitvars == <<r, glmm, flmm, null_lml, scanned, i, models, ret>>

NoLik == [type |-> "tuple", items |-> <<>>]
NoG == [sample |-> 0, candidate |-> <<>>]
NoFactory == [made |-> FALSE, candidate |-> <<>>, null |-> <<>>, tests |-> <<>>]
NoGlmm == [fitted |-> FALSE, eta |-> <<>>, tau |-> <<>>]
NoScanner == [made |-> FALSE, scale |-> ""]
NoScan == [alt_lmls |-> <<>>, effsizes |-> <<>>]

Init ==
  /\ entry = "none"
  /\ pc = "idle"
  /\ args = [G |-> NoG, y |-> <<>>, lik |-> NoLik, K |-> None, M |-> None, QS |-> None]
  /\ lik = NoLik
  /\ lik_name = <<>>
  /\ y = <<>>
  /\ M = None
  /\ G = NoG
  /\ K = None
  /\ QS = None
  /\ r = NoFactory
  /\ glmm = NoGlmm
  /\ flmm = NoScanner
  /\ null_lml = <<>>
  /\ scanned = NoScan
  /\ i = 0
  /\ log = <<>>
  /\ models = <<>>
  /\ ret = None
  /\ err = NoError

\* raise: the call ends with the exception e.
Raise(e) == /\ err' = e
            /\ pc' = "done"

\* ----------------------------------------------------------------- st_scan

\* A caller calls st_scan(G, y, lik, K, M).
Call_st_scan ==
  /\ pc = "idle"
  /\ \E g \in GInputs, yy \in YInputs, l \in LikInputs, k \in KInputs, m \in MInputs :
       /\ args' = [G |-> g, y |-> yy, lik |-> l, K |-> k, M |-> m, QS |-> None]
       /\ G' = g /\ y' = yy /\ lik' = l /\ K' = k /\ M' = m
  /\ entry' = "st_scan"
  /\ pc' = "L165"
  /\ UNCHANGED <<lik_name, QS, log, err>>
  /\ UNCHANGED fitvars

\* if not isinstance(lik, (tuple, list)): lik = (lik,)
WrapLik ==
  /\ pc = "L165"
  /\ lik' = IF lik.type \notin {"tuple", "list"}
            THEN [type |-> "tuple", items |-> lik.items]
            ELSE lik
  /\ pc' = "L168"
  /\ UNCHANGED <<entry, args, lik_name, y, M, G, K, QS, log, err>>
  /\ UNCHANGED fitvars

\* NormaliseName without the lower-casing: lik_name = lik[0]
NormaliseName_NoLower ==
  /\ pc = "L168"
  /\ lik_name' = lik.items[1]
  /\ pc' = "L169"
  /\ UNCHANGED <<entry, args, lik, y, M, G, K, QS, log, err>>
  /\ UNCHANGED fitvars

\* lik_name = lik[0].lower()
NormaliseName ==
  /\ pc = "L168"
  /\ lik_name' = Lower(lik.items[1])
  /\ pc' = "L169"
  /\ UNCHANGED <<entry, args, lik, y, M, G, K, QS, log, err>>
  /\ UNCHANGED fitvars

\* lik[1:]: a slice of a tuple is a tuple, a slice of a list is a list.
Slice1(l) == [type |-> l.type, items |-> Tail(l.items)]

\* lik = (lik_name,) + lik[1:]: a tuple is concatenated to a tuple only.
RebuildLik ==
  /\ pc = "L169"
  /\ IF Slice1(lik).type = "tuple"
     THEN /\ lik' = [type |-> "tuple", items |-> <<lik_name>> \o Slice1(lik).items]
          /\ pc' = "L170"
          /\ err' = err
     ELSE /\ Raise(TypeError)
          /\ lik' = lik
  /\ UNCHANGED <<entry, args, lik_name, y, M, G, K, QS, log>>
  /\ UNCHANGED fitvars

\* assert_likelihood(lik_name)
AssertLikelihood ==
  /\ pc = "L170"
  /\ IF lik_name \in CONF_likelihoods
     THEN /\ pc' = "L175"
          /\ err' = err
     ELSE Raise(InvalidLikelihoodError)
  /\ UNCHANGED <<entry, args, lik, lik_name, y, M, G, K, QS, log>>
  /\ UNCHANGED fitvars

\* conform_dataset: the covariates it returns (a column of ones when M is None).
ConformedM(yy, m) == IF m.isNone THEN Ones(Len(yy)) ELSE m.a

\* conform_dataset: the inputs agree on the sample count.
SameSamples(yy, m, g, k) ==
  /\ Len(ConformedM(yy, m)) = Len(yy)
  /\ g.sample = Len(yy)
  /\ k.isNone \/ (Len(k.a) = Len(yy) /\ \A j \in 1..Len(k.a) : Len(k.a[j]) = Len(yy))

\* data = conform_dataset(y, M, G=G, K=K); y, M, G, K = data[...]
ConformDataset ==
  /\ pc = "L175"
  /\ IF SameSamples(y, M, G, K)
     THEN /\ M' = Some(ConformedM(y, M))
          /\ log' = Append(log, "conform_dataset")
          /\ pc' = "L182"
          /\ err' = err
     ELSE /\ Raise(DimensionMismatchError)
          /\ UNCHANGED <<M, log>>
  /\ UNCHANGED <<entry, args, lik, lik_name, y, G, K, QS>>
  /\ UNCHANGED fitvars

\* if not is_all_finite(y): raise ValueError
CheckFiniteY ==
  /\ pc = "L182"
  /\ IF ~is_all_finite(y)
     THEN Raise(ValueError_y)
     ELSE /\ pc' = "L185"
          /\ err' = err
  /\ UNCHANGED <<entry, args, lik, lik_name, y, M, G, K, QS, log>>
  /\ UNCHANGED fitvars

\* CheckFiniteM without the check of the covariates.
CheckFiniteM_Skipped ==
  /\ pc = "L185"
  /\ pc' = "L188"
  /\ UNCHANGED <<entry, args, lik, lik_name, y, M, G, K, QS, log, err>>
  /\ UNCHANGED fitvars

\* if not is_all_finite(M): raise ValueError
CheckFiniteM ==
  /\ pc = "L185"
  /\ IF ~is_all_finite(M.a)
     THEN Raise(ValueError_M)
     ELSE /\ pc' = "L188"
          /\ err' = err
  /\ UNCHANGED <<entry, args, lik, lik_name, y, M, G, K, QS, log>>
  /\ UNCHANGED fitvars

\* economic_qs(K): the decomposition of K.
economic_qs(k) == Some(k)

\* FactorizeK factorizing K before looking at its values.
FactorizeK_Unchecked ==
  /\ pc = "L188"
  /\ IF ~K.isNone
     THEN /\ QS' = economic_qs(K.a)
          /\ log' = Append(log, "economic_qs")
          /\ IF ~is_all_finite(K.a)
             THEN Raise(ValueError_K)
             ELSE /\ pc' = "L195"
                  /\ err' = err
     ELSE /\ QS' = None
          /\ pc' = "L195"
          /\ UNCHANGED <<log, err>>
  /\ UNCHANGED <<entry, args, lik, lik_name, y, M, G, K>>
  /\ UNCHANGED fitvars

\* if K is not None: (finite check; QS = economic_qs(K)) else: QS = None
FactorizeK ==
  /\ pc = "L188"
  /\ IF ~K.isNone
     THEN IF ~is_all_finite(K.a)
          THEN /\ Raise(ValueError_K)
               /\ UNCHANGED <<QS, log>>
          ELSE /\ QS' = economic_qs(K.a)
               /\ log' = Append(log, "economic_qs")
               /\ pc' = "L195"
               /\ err' = err
     ELSE /\ QS' = None
          /\ pc' = "L195"
          /\ UNCHANGED <<log, err>>
  /\ UNCHANGED <<entry, args, lik, lik_name, y, M, G, K>>
  /\ UNCHANGED fitvars

\* normalise_extreme_values(y, lik): extreme outcomes are clipped for the
\* likelihoods other than Normal.
normalise_extreme_values(yy, l) ==
  IF l.items[1] = n_normal
  THEN yy
  ELSE [k \in 1..Len(yy) |->
          [j \in 1..Len(yy[k]) |-> IF yy[k][j] = "huge" THEN "clipped" ELSE yy[k][j]]]

\* y = normalise_extreme_values(data["y"], lik)
NormaliseExtremeValues ==
  /\ pc = "L195"
  /\ y' = normalise_extreme_values(y, lik)
  /\ log' = Append(log, "normalise_extreme_values")
  /\ pc' = "L197"
  /\ UNCHANGED <<entry, args, lik, lik_name, M, G, K, QS, err>>
  /\ UNCHANGED fitvars

\* ScanResultFactory(lik, covariates, candidates): an empty factory.
ScanResultFactory(l, covariate, candidate) ==
  [made |-> TRUE, candidate |-> candidate, null |-> <<>>, tests |-> <<>>]

\* r = ST_ScanResultFactory(lik, M.covariate, G.candidate), then the choice of the
\* fitting path: _perform_lmm for "normal", _perform_glmm otherwise.  The name
\* ST_ScanResultFactory is looked up in the module's namespace when the line runs.
BuildFactory ==
  /\ pc = "L197"
  /\ IF "ST_ScanResultFactory" \in ModuleGlobals
     THEN /\ r' = ScanResultFactory(lik, M.a, G.candidate)
          /\ pc' = IF lik_name = n_normal THEN "lmm_L213" ELSE "glmm_L236"
          /\ err' = err
     ELSE /\ Raise(NameError)
          /\ r' = r
  /\ UNCHANGED <<entry, args, lik, lik_name, y, M, G, K, QS, log>>
  /\ UNCHANGED <<glmm, flmm, null_lml, scanned, i, models, ret>>

\* ----------------------------------------------------- the result factory

\* r.set_null(null_lml, beta, v1, v0)
set_null(f, lml, beta, v1, v0) ==
  [f EXCEPT !.null = Append(@, [null_lml |-> lml, beta |-> beta, v1 |-> v1, v0 |-> v0])]

\* r.add_test(test, effsize, alt_lml)
add_test(f, test, effsize, alt_lml) ==
  [f EXCEPT !.tests = Append(@, [test |-> test, effsize |-> effsize, alt_lml |-> alt_lml])]

\* r.create(): the report of what the factory holds.
create(f) == [candidate |-> f.candidate, null |-> f.null, tests |-> f.tests]

\* ------------------------------------------------------- external routines

\* flmm.fast_scan(G): one alternative log-marginal-likelihood and one effect size
\* per column of G, in column order.
fast_scan(g) ==
  [alt_lmls |-> [k \in 1..Len(g.candidate) |-> <<"alt_lml", g.candidate[k]>>],
   effsizes |-> [k \in 1..Len(g.candidate) |-> <<"effsize", g.candidate[k]>>]]

Min(a, b) == IF a <= b THEN a ELSE b

\* zip(a, b)
Zip(a, b) == [k \in 1..Min(Len(a), Len(b)) |-> <<a[k], b[k]>>]

\* A model as built: its class, the QS and the site parameters it was handed.
Model(cls, qs, eta, tau) == [cls |-> cls, QS |-> qs, eta |-> eta, tau |-> tau]

\* Arguments a caller of the fitting helpers passes: conformed, finite data, and
\* either no decomposition or the decomposition of the covariance matrix.
YConformed == {Ones(Nsamples), [Ones(Nsamples) EXCEPT ![Nsamples] = <<"clipped">>]}
KConformed == {None, Some(Square(Nsamples))}
QSInputs == {IF k.isNone THEN None ELSE economic_qs(k.a) : k \in KConformed}

\* ------------------------------------------------------------ _perform_lmm

\* A caller calls _perform_lmm(r, y, M, QS, G, verbose) with an empty factory.
Call_perform_lmm ==
  /\ pc = "idle"
  /\ \E g \in GInputs, yy \in YConformed, qs \in QSInputs :
       /\ args' = [G |-> g, y |-> yy, lik |-> NoLik, K |-> None,
                   M |-> Some(Ones(Nsamples)), QS |-> qs]
       /\ G' = g /\ y' = yy /\ QS' = qs /\ M' = Some(Ones(Nsamples))
       /\ r' = ScanResultFactory(NoLik, Ones(Nsamples), g.candidate)
  /\ entry' = "_perform_lmm"
  /\ pc' = "lmm_L213"
  /\ UNCHANGED <<lik, lik_name, K, log, err>>
  /\ UNCHANGED <<glmm, flmm, null_lml, scanned, i, models, ret>>

\* lmm = LMM(y, M.values, QS)
LmmBuild ==
  /\ pc = "lmm_L213"
  /\ models' = Append(models, Model("LMM", QS, <<>>, <<>>))
  /\ log' = Append(log, "LMM")
  /\ pc' = "lmm_L215"
  /\ UNCHANGED <<entry, args, lik, lik_name, y, M, G, K, QS, err>>
  /\ UNCHANGED <<r, glmm, flmm, null_lml, scanned, i, ret>>

\* lmm.fit(verbose=verbose): the optimizer converges, or its failure propagates.
LmmFit ==
  /\ pc = "lmm_L215"
  /\ \E converged \in BOOLEAN :
       IF converged
       THEN /\ pc' = "lmm_L218"
            /\ err' = err
       ELSE Raise(NonConvergenceError)
  /\ log' = Append(log, "LMM.fit")
  /\ UNCHANGED <<entry, args, lik, lik_name, y, M, G, K, QS>>
  /\ UNCHANGED fitvars

\* null_lml = lmm.lml(); beta = lmm.beta; r.set_null(null_lml, beta, lmm.v1, lmm.v0)
LmmSetNull ==
  /\ pc = "lmm_L218"
  /\ null_lml' = <<"lml", "LMM">>
  /\ r' = set_null(r, null_lml', "LMM.beta", "LMM.v1", "LMM.v0")
  /\ log' = log \o <<"LMM.lml", "set_null">>
  /\ pc' = "lmm_L224"
  /\ UNCHANGED <<entry, args, lik, lik_name, y, M, G, K, QS, err>>
  /\ UNCHANGED <<glmm, flmm, scanned, i, models, ret>>

\* flmm = lmm.get_fast_scanner(); alt_lmls, effsizes = flmm.fast_scan(G.data)
LmmFastScan ==
  /\ pc = "lmm_L224"
  /\ flmm' = [made |-> TRUE, scale |-> "fitted"]
  /\ scanned' = fast_scan(G)
  /\ log' = log \o <<"get_fast_scanner", "fast_scan">>
  /\ i' = 0
  /\ pc' = "lmm_L227"
  /\ UNCHANGED <<entry, args, lik, lik_name, y, M, G, K, QS, err>>
  /\ UNCHANGED <<r, glmm, null_lml, models, ret>>

\* LmmAddTest passing the pair in zip order: r.add_test(i, data[0], data[1])
LmmAddTest_Swapped ==
  /\ pc = "lmm_L227"
  /\ i < Len(Zip(scanned.alt_lmls, scanned.effsizes))
  /\ LET data == Zip(scanned.alt_lmls, scanned.effsizes)[i + 1]
     IN r' = add_test(r, i, data[1], data[2])
  /\ log' = Append(log, "add_test")
  /\ i' = i + 1
  /\ UNCHANGED <<entry, pc, args, lik, lik_name, y, M, G, K, QS, err>>
  /\ UNCHANGED <<glmm, flmm, null_lml, scanned, models, ret>>

\* for i, data in enumerate(zip(alt_lmls, effsizes)): r.add_test(i, data[1], data[0])
LmmAddTest ==
  /\ pc = "lmm_L227"
  /\ i < Len(Zip(scanned.alt_lmls, scanned.effsizes))
  /\ LET data == Zip(scanned.alt_lmls, scanned.effsizes)[i + 1]
     IN r' = add_test(r, i, data[2], data[1])
  /\ log' = Append(log, "add_test")
  /\ i' = i + 1
  /\ UNCHANGED <<entry, pc, args, lik, lik_name, y, M, G, K, QS, err>>
  /\ UNCHANGED <<glmm, flmm, null_lml, scanned, models, ret>>

\* return r.create()
LmmCreate ==
  /\ pc = "lmm_L227"
  /\ i >= Len(Zip(scanned.alt_lmls, scanned.effsizes))
  /\ ret' = Some(create(r))
  /\ log' = Append(log, "create")
  /\ pc' = "done"
  /\ UNCHANGED <<entry, args, lik, lik_name, y, M, G, K, QS, err>>
  /\ UNCHANGED <<r, glmm, flmm, null_lml, scanned, i, models>>

\* ----------------------------------------------------------- _perform_glmm

GlmmLikInputs ==
  {[type |-> "tuple", items |-> <<n>> \o x] :
     n \in CONF_likelihoods \ {n_normal}, x \in AuxInputs}

\* A caller calls _perform_glmm(r, y, lik, M, K, QS, G, verbose) with an empty factory.
Call_perform_glmm ==
  /\ pc = "idle"
  /\ \E g \in GInputs, yy \in YConformed, k \in KConformed, l \in GlmmLikInputs :
       LET qs == IF k.isNone THEN None ELSE economic_qs(k.a)
       IN /\ args' = [G |-> g, y |-> yy, lik |-> l, K |-> k,
                      M |-> Some(Ones(Nsamples)), QS |-> qs]
          /\ G' = g /\ y' = yy /\ QS' = qs /\ K' = k /\ lik' = l
       /\ M' = Some(Ones(Nsamples))
       /\ r' = ScanResultFactory(l, Ones(Nsamples), g.candidate)
  /\ entry' = "_perform_glmm"
  /\ pc' = "glmm_L236"
  /\ UNCHANGED <<lik_name, log, err>>
  /\ UNCHANGED <<glmm, flmm, null_lml, scanned, i, models, ret>>

\* glmm = GLMMExpFam(y.ravel(), lik, M.values, QS)
GlmmBuild ==
  /\ pc = "glmm_L236"
  /\ models' = Append(models, Model("GLMMExpFam", QS, <<>>, <<>>))
  /\ log' = Append(log, "GLMMExpFam")
  /\ pc' = "glmm_L238"
  /\ UNCHANGED <<entry, args, lik, lik_name, y, M, G, K, QS, err>>
  /\ UNCHANGED <<r, glmm, flmm, null_lml, scanned, i, ret>>

\* glmm.fit(verbose=verbose): the optimizer converges, or its failure propagates.
GlmmFit ==
  /\ pc = "glmm_L238"
  /\ \E converged \in BOOLEAN :
       IF converged
       THEN /\ glmm' = [glmm EXCEPT !.fitted = TRUE]
            /\ pc' = "glmm_L241"
            /\ err' = err
       ELSE /\ Raise(NonConvergenceError)
            /\ glmm' = glmm
  /\ log' = Append(log, "GLMMExpFam.fit")
  /\ UNCHANGED <<entry, args, lik, lik_name, y, M, G, K, QS>>
  /\ UNCHANGED <<r, flmm, null_lml, scanned, i, models, ret>>

\* GlmmReadSite factorizing the covariance once the site parameters are known.
GlmmReadSite_Deferred ==
  /\ pc = "glmm_L241"
  /\ glmm' = [glmm EXCEPT !.eta = <<"eta", lik.items[1]>>, !.tau = <<"tau", lik.items[1]>>]
  /\ QS' = IF K.isNone THEN None ELSE economic_qs(K.a)
  /\ log' = log \o (IF K.isNone THEN <<"site.eta", "site.tau">>
                                ELSE <<"site.eta", "site.tau", "economic_qs">>)
  /\ pc' = "glmm_L244"
  /\ UNCHANGED <<entry, args, lik, lik_name, y, M, G, K, err>>
  /\ UNCHANGED <<r, flmm, null_lml, scanned, i, models, ret>>

\* eta = glmm.site.eta; tau = glmm.site.tau
GlmmReadSite ==
  /\ pc = "glmm_L241"
  /\ glmm' = [glmm EXCEPT !.eta = <<"eta", lik.items[1]>>, !.tau = <<"tau", lik.items[1]>>]
  /\ log' = log \o <<"site.eta", "site.tau">>
  /\ pc' = "glmm_L244"
  /\ UNCHANGED <<entry, args, lik, lik_name, y, M, G, K, QS, err>>
  /\ UNCHANGED <<r, flmm, null_lml, scanned, i, models, ret>>

\* gnormal = GLMMNormal(eta, tau, M.values, QS)
GnormalBuild ==
  /\ pc = "glmm_L244"
  /\ models' = Append(models, Model("GLMMNormal", QS, glmm.eta, glmm.tau))
  /\ log' = Append(log, "GLMMNormal")
  /\ pc' = "glmm_L245"
  /\ UNCHANGED <<entry, args, lik, lik_name, y, M, G, K, QS, err>>
  /\ UNCHANGED <<r, glmm, flmm, null_lml, scanned, i, ret>>

\* gnormal.fit(verbose=verbose): the optimizer converges, or its failure propagates.
GnormalFit ==
  /\ pc = "glmm_L245"
  /\ \E converged \in BOOLEAN :
       IF converged
       THEN /\ pc' = "glmm_L247"
            /\ err' = err
       ELSE Raise(NonConvergenceError)
  /\ log' = Append(log, "GLMMNormal.fit")
  /\ UNCHANGED <<entry, args, lik, lik_name, y, M, G, K, QS>>
  /\ UNCHANGED fitvars

\* beta = gnormal.beta; flmm = gnormal.get_fast_scanner()
GlmmGetScanner ==
  /\ pc = "glmm_L247"
  /\ flmm' = [made |-> TRUE, scale |-> "fitted"]
  /\ log' = Append(log, "get_fast_scanner")
  /\ pc' = "glmm_L250"
  /\ UNCHANGED <<entry, args, lik, lik_name, y, M, G, K, QS, err>>
  /\ UNCHANGED <<r, glmm, null_lml, scanned, i, models, ret>>

\* GlmmSetScale leaving the scanner at the scale it was built with.
GlmmSetScale_Skipped ==
  /\ pc = "glmm_L250"
  /\ pc' = "glmm_L251"
  /\ UNCHANGED <<entry, args, lik, lik_name, y, M, G, K, QS, err, log>>
  /\ UNCHANGED fitvars

\* flmm.set_scale(1.0)
GlmmSetScale ==
  /\ pc = "glmm_L250"
  /\ flmm' = [flmm EXCEPT !.scale = "1.0"]
  /\ log' = Append(log, "set_scale")
  /\ pc' = "glmm_L251"
  /\ UNCHANGED <<entry, args, lik, lik_name, y, M, G, K, QS, err>>
  /\ UNCHANGED <<r, glmm, null_lml, scanned, i, models, ret>>

\* null_lml = flmm.null_lml(): the null log-marginal-likelihood at the scanner's scale.
GlmmNullLml ==
  /\ pc = "glmm_L251"
  /\ null_lml' = <<"null_lml", flmm.scale>>
  /\ log' = Append(log, "null_lml")
  /\ pc' = "glmm_L253"
  /\ UNCHANGED <<entry, args, lik, lik_name, y, M, G, K, QS, err>>
  /\ UNCHANGED <<r, glmm, flmm, scanned, i, models, ret>>

\* r.set_null(null_lml, beta, gnormal.v1, gnormal.v0)
GlmmSetNull ==
  /\ pc = "glmm_L253"
  /\ r' = set_null(r, null_lml, "GLMMNormal.beta", "GLMMNormal.v1", "GLMMNormal.v0")
  /\ log' = Append(log, "set_null")
  /\ pc' = "glmm_L255"
  /\ UNCHANGED <<entry, args, lik, lik_name, y, M, G, K, QS, err>>
  /\ UNCHANGED <<glmm, flmm, null_lml, scanned, i, models, ret>>

\* alt_lmls, effsizes = flmm.fast_scan(G.values, verbose=verbose)
GlmmFastScan ==
  /\ pc = "glmm_L255"
  /\ scanned' = fast_scan(G)
  /\ log' = Append(log, "fast_scan")
  /\ i' = 0
  /\ pc' = "glmm_L257"
  /\ UNCHANGED <<entry, args, lik, lik_name, y, M, G, K, QS, err>>
  /\ UNCHANGED <<r, glmm, flmm, null_lml, models, ret>>

\* for i, data in enumerate(zip(alt_lmls, effsizes)): r.add_test(i, data[1], data[0])
GlmmAddTest ==
  /\ pc = "glmm_L257"
  /\ i < Len(Zip(scanned.alt_lmls, scanned.effsizes))
  /\ LET data == Zip(scanned.alt_lmls, scanned.effsizes)[i + 1]
     IN r' = add_test(r, i, data[2], data[1])
  /\ log' = Append(log, "add_test")
  /\ i' = i + 1
  /\ UNCHANGED <<entry, pc, args, lik, lik_name, y, M, G, K, QS, err>>
  /\ UNCHANGED <<glmm, flmm, null_lml, scanned, models, ret>>

\* return r.create()
GlmmCreate ==
  /\ pc = "glmm_L257"
  /\ i >= Len(Zip(scanned.alt_lmls, scanned.effsizes))
  /\ ret' = Some(create(r))
  /\ log' = Append(log, "create")
  /\ pc' = "done"
  /\ UNCHANGED <<entry, args, lik, lik_name, y, M, G, K, QS, err>>
  /\ UNCHANGED <<r, glmm, flmm, null_lml, scanned, i, models>>

\* ------------------------------------------------------------ specification

Next ==
  \/ Call_st_scan
  \/ WrapLik
  \/ NormaliseName
  \/ RebuildLik
  \/ AssertLikelihood
  \/ ConformDataset
  \/ CheckFiniteY
  \/ CheckFiniteM
  \/ FactorizeK
  \/ NormaliseExtremeValues
  \/ BuildFactory
  \/ Call_perform_lmm
  \/ LmmBuild
  \/ LmmFit
  \/ LmmSetNull
  \/ LmmFastScan
  \/ LmmAddTest
  \/ LmmCreate
  \/ Call_perform_glmm
  \/ GlmmBuild
  \/ GlmmFit
  \/ GlmmReadSite
  \/ GnormalBuild
  \/ GnormalFit
  \/ GlmmGetScanner
  \/ GlmmSetScale
  \/ GlmmNullLml
  \/ GlmmSetNull
  \/ GlmmFastScan
  \/ GlmmAddTest
  \/ GlmmCreate

Spec == Init /\ [][Next]_vars

\* ------------------------------------------------------------------ claims

\* Number of times x occurs in the sequence s, and the places where it does.
Places(s, x) == {k \in 1..Len(s) : s[k] = x}
Count(s, x) == Cardinality(Places(s, x))
Occurs(s, x) == Places(s, x) # {}

\* xs come before ys in s: every occurrence of x is before every occurrence of y.
Before(s, x, z) == \A a \in Places(s, x), b \in Places(s, z) : a < b

\* Calls that build, fit or query a model or a scanner.
FittingOps ==
  {"LMM", "LMM.fit", "LMM.lml", "GLMMExpFam", "GLMMExpFam.fit", "site.eta", "site.tau",
   "GLMMNormal", "GLMMNormal.fit", "get_fast_scanner", "set_scale", "null_lml",
   "fast_scan"}

NoFitInvoked == models = <<>> /\ \A k \in 1..Len(log) : log[k] \notin FittingOps

\* The call is past dataset conformance: y, M, K hold the conformed arrays.
Conformed == Occurs(log, "conform_dataset")

\* Two names that differ at most in letter case.
CasePairs == {<<u, UpperToLower[u]>> : u \in DOMAIN UpperToLower}
SameModuloCase(a, b) ==
  /\ Len(a) = Len(b)
  /\ \A k \in 1..Len(a) : a[k] = b[k] \/ <<a[k], b[k]>> \in CasePairs \/ <<b[k], a[k]>> \in CasePairs

ArgName == args.lik.items[1]
ArgAux == Tail(args.lik.items)
NameAllowed == \E c \in CONF_likelihoods : SameModuloCase(ArgName, c)

\* The arguments of a st_scan call are valid: an allowed likelihood given as a
\* string or a tuple, trial counts of length N for binomial and no auxiliary entry
\* otherwise, inputs that agree on the sample count, finite y, M and K.
ValidCall ==
  /\ entry = "st_scan"
  /\ args.lik.type \in {"str", "tuple"}
  /\ NameAllowed
  /\ IF SameModuloCase(ArgName, n_binomial)
     THEN Len(ArgAux) = 1 /\ Len(ArgAux[1]) = Len(args.y)
     ELSE ArgAux = <<>>
  /\ SameSamples(args.y, args.M, args.G, args.K)
  /\ is_all_finite(args.y)
  /\ is_all_finite(ConformedM(args.y, args.M))
  /\ args.K.isNone \/ is_all_finite(args.K.a)

\* C1: a st_scan call whose conformed y, M or K holds a non-finite value never gets
\* past the finiteness checks, ends with one of the non-finite-input errors, and
\* builds, fits or scans no model.
C1_NonFiniteFailsBeforeAnyFit ==
  (/\ entry = "st_scan"
   /\ Conformed
   /\ ~is_all_finite(y) \/ ~is_all_finite(M.a) \/ (~K.isNone /\ ~is_all_finite(K.a)))
    => /\ NoFitInvoked
       /\ ~Occurs(log, "economic_qs")
       /\ pc \in {"L182", "L185", "L188", "done"}
       /\ pc = "done" => (err \in NonFiniteInputError /\ ret.isNone)

\* C1 witness: a call with finite y and M and a NaN in K has ended with the
\* covariance error.
C1_Witness ==
  /\ entry = "st_scan" /\ pc = "done" /\ err = ValueError_K
  /\ is_all_finite(y) /\ is_all_finite(M.a) /\ ~is_all_finite(K.a)
  /\ NoFitInvoked

\* C2: a st_scan call with likelihood binomial and no trial counts ends with
\* InvalidLikelihoodError, one with trial counts of a length other than the sample
\* count ends with DimensionMismatchError, and neither builds a model (stated for
\* calls whose G, y, M and K conform and are finite, so that no other error is due).
C2_BinomialAuxValidated ==
  (/\ entry = "st_scan" /\ pc = "done"
   /\ args.lik.type \in {"str", "tuple"}
   /\ SameModuloCase(ArgName, n_binomial)
   /\ SameSamples(args.y, args.M, args.G, args.K)
   /\ is_all_finite(args.y)
   /\ is_all_finite(ConformedM(args.y, args.M))
   /\ args.K.isNone \/ is_all_finite(args.K.a))
    => /\ ArgAux = <<>> => (err = InvalidLikelihoodError /\ models = <<>>)
       /\ (Len(ArgAux) = 1 /\ Len(ArgAux[1]) # Len(args.y))
            => (err = DimensionMismatchError /\ models = <<>>)

\* C3: lik_name is the lower-cased name; a name that differs from an allowed name
\* only in letter case resolves to that allowed name and is never rejected as
\* invalid; a name outside the set ends the call with an error before dataset
\* conformance, factorization or any fit.
C3_NameLowerCasedAndChecked ==
  entry = "st_scan" =>
    /\ pc \notin {"L165", "L168"} =>
         \A c \in CONF_likelihoods : SameModuloCase(ArgName, c) => lik_name = c
    /\ NameAllowed => err # InvalidLikelihoodError
    /\ (pc \notin {"L165", "L168", "L169", "L170", "done"} \/ Conformed)
         => (NameAllowed /\ lik_name \in CONF_likelihoods)
    /\ ~NameAllowed =>
         /\ pc \in {"L165", "L168", "L169", "L170", "done"}
         /\ log = <<>> /\ models = <<>> /\ QS = None
         /\ pc = "done" =>
              /\ err # NoError /\ ret.isNone
              /\ args.lik.type \in {"str", "tuple"} => err = InvalidLikelihoodError

\* C3 witness: a name in mixed case has passed validation as its lower-cased form.
C3_Witness ==
  /\ entry = "st_scan" /\ pc = "L175"
  /\ ArgName # n_poisson /\ SameModuloCase(ArgName, n_poisson)
  /\ lik_name = n_poisson /\ lik.items[1] = n_poisson

\* C4: a valid st_scan call that ends without a fitting failure has, for the name
\* normal, run exactly one linear mixed-model fit and read no site parameter, and
\* for any other name fitted the generalized model, then read eta and tau, then
\* fitted the Normal model built from them, then scanned.
C4_PathByLikelihood ==
  (ValidCall /\ pc = "done" /\ err # NonConvergenceError)
    => IF lik_name = n_normal
       THEN /\ Count(log, "LMM.fit") = 1
            /\ ~Occurs(log, "site.eta") /\ ~Occurs(log, "site.tau")
            /\ ~Occurs(log, "GLMMExpFam.fit") /\ ~Occurs(log, "GLMMNormal.fit")
       ELSE /\ Count(log, "GLMMExpFam.fit") = 1 /\ Count(log, "GLMMNormal.fit") = 1
            /\ Occurs(log, "site.eta") /\ Occurs(log, "site.tau")
            /\ ~Occurs(log, "LMM.fit")
            /\ Before(log, "GLMMExpFam.fit", "site.eta")
            /\ Before(log, "site.tau", "GLMMNormal.fit")
            /\ Before(log, "GLMMNormal.fit", "fast_scan")

\* C5: a report holds one test per column of G, and the test at position k has
\* test index k - 1 and the alternative log-marginal-likelihood and effect size
\* the scanner computed for column k of G.
C5_OneResultPerColumnInOrder ==
  (pc = "done" /\ ~ret.isNone) =>
    /\ Len(ret.a.tests) = Len(args.G.candidate)
    /\ \A k \in 1..Len(ret.a.tests) :
         /\ ret.a.tests[k].test = k - 1
         /\ ret.a.tests[k].alt_lml = <<"alt_lml", args.G.candidate[k]>>
         /\ ret.a.tests[k].effsize = <<"effsize", args.G.candidate[k]>>

\* C5 witness: a report of _perform_lmm over two different candidate columns.
C5_Witness ==
  /\ pc = "done" /\ ~ret.isNone /\ entry = "_perform_lmm"
  /\ Len(args.G.candidate) >= 2 /\ args.G.candidate[1] # args.G.candidate[2]
  /\ Len(ret.a.tests) = Len(args.G.candidate)

\* C6: a st_scan call ends either with a report or with an exception, never both
\* and never neither; a valid call whose fits converge ends with a report; and a
\* report holds the null model, set once, and one test per candidate.
C6_CompleteReportOrRaise ==
  (entry = "st_scan" /\ pc = "done") =>
    /\ ret.isNone <=> err # NoError
    /\ (ValidCall /\ err # NonConvergenceError) => ~ret.isNone
    /\ ~ret.isNone =>
         (Len(ret.a.null) = 1 /\ Len(ret.a.tests) = Len(args.G.candidate))

\* C7 as stated: a finished st_scan call has factorized exactly once when K is
\* supplied and finite, and never otherwise.
C7_Original ==
  (entry = "st_scan" /\ pc = "done") =>
    Count(log, "economic_qs") =
      (IF ~args.K.isNone /\ is_all_finite(args.K.a) THEN 1 ELSE 0)

\* The call gets through lines 165-186: lik is rebuilt, the name is allowed, the
\* inputs conform, y and M are finite.
ReachesCovarianceCheck ==
  /\ Slice1(args.lik).type # "list"
  /\ Lower(ArgName) \in CONF_likelihoods
  /\ SameSamples(args.y, args.M, args.G, args.K)
  /\ is_all_finite(args.y)
  /\ is_all_finite(ConformedM(args.y, args.M))

\* C7 amended: the factorization runs at most once per call; a finished st_scan
\* call has run it exactly once when the call got as far as the covariance check
\* with K supplied and finite, and never otherwise; QS is then the decomposition
\* of that K (None when K is None); every model built was handed the call's QS;
\* the fitting helpers never factorize.
C7_FactorizedAtMostOnceAndShared ==
  /\ Count(log, "economic_qs") <= 1
  /\ (entry = "st_scan" /\ pc \in {"L195", "L197", "done"}) =>
       /\ Count(log, "economic_qs") =
            (IF /\ ReachesCovarianceCheck
                /\ ~args.K.isNone /\ is_all_finite(args.K.a) THEN 1 ELSE 0)
       /\ Occurs(log, "economic_qs") => QS = Some(args.K.a)
       /\ ~Occurs(log, "economic_qs") => QS = None
  /\ entry \in {"_perform_lmm", "_perform_glmm"} =>
       (~Occurs(log, "economic_qs") /\ QS = args.QS)
  /\ \A k \in 1..Len(models) : models[k].QS = QS

\* C7 witness: a st_scan call that factorized its finite K once and has ended.
C7_Witness ==
  /\ entry = "st_scan" /\ pc = "done"
  /\ ~args.K.isNone /\ Count(log, "economic_qs") = 1 /\ QS = Some(args.K.a)

\* C8 as stated: on the non-Normal path of st_scan the factorization comes after
\* the site parameters have been read.
C8_Original ==
  (/\ entry = "st_scan" /\ lik_name \in CONF_likelihoods \ {n_normal}
   /\ Occurs(log, "economic_qs"))
    => /\ Occurs(log, "site.eta") /\ Occurs(log, "site.tau")
       /\ Before(log, "site.tau", "economic_qs")

\* C8 amended: the factorization is not deferred.  st_scan factorizes a supplied K
\* at line 191, whatever the likelihood name, when no model has been built or
\* fitted and no site parameter read; the fitting helpers are handed the finished
\* QS and never factorize, so no factorization follows a model call.
C8_FactorizedBeforeAnyModel ==
  /\ \A op \in FittingOps : Before(log, "economic_qs", op)
  /\ (entry = "st_scan" /\ pc \in {"L195", "L197"} /\ ~K.isNone) =>
       (Count(log, "economic_qs") = 1 /\ NoFitInvoked /\ glmm = NoGlmm)
  /\ entry \in {"_perform_lmm", "_perform_glmm"} => ~Occurs(log, "economic_qs")
  /\ Occurs(log, "site.tau") => QS = args.QS

\* C8 witness: a Poisson st_scan call has factorized K before any model exists.
C8_Witness ==
  /\ entry = "st_scan" /\ pc = "L197" /\ lik_name = n_poisson
  /\ Occurs(log, "economic_qs") /\ NoFitInvoked

\* C9: on the non-Normal path the scale is set to 1.0 exactly once, after the
\* Normal model's fit and before the null log-marginal-likelihood is read and
\* before the scan; the scale stays 1.0; the null log-marginal-likelihood handed
\* to the factory and held by the report is the one read at scale 1.0.
C9_ScaleOneBeforeNullAndScan ==
  Occurs(log, "GLMMExpFam") =>
    /\ Count(log, "set_scale") <= 1
    /\ (Occurs(log, "null_lml") \/ Occurs(log, "fast_scan")) => Occurs(log, "set_scale")
    /\ Before(log, "GLMMNormal.fit", "set_scale")
    /\ Before(log, "set_scale", "null_lml")
    /\ Before(log, "set_scale", "fast_scan")
    /\ Occurs(log, "set_scale") => flmm.scale = "1.0"
    /\ \A k \in 1..Len(r.null) : r.null[k].null_lml = <<"null_lml", "1.0">>
    /\ ~ret.isNone =>
         (Len(ret.a.null) = 1 /\ ret.a.null[1].null_lml = <<"null_lml", "1.0">>)

\* C9 witness: a report of the non-Normal path.
C9_Witness ==
  /\ entry = "_perform_glmm" /\ pc = "done" /\ ~ret.isNone
  /\ Occurs(log, "set_scale") /\ Occurs(log, "fast_scan")
  /\ ret.a.null[1].null_lml = <<"null_lml", "1.0">>

\* C10: a likelihood given as a list is rebuilt like the tuple of the same
\* entries, to (lower-cased name, aux...), and reaches likelihood validation
\* without raising.
C10_ListAcceptedLikeTuple ==
  (entry = "st_scan" /\ args.lik.type = "list" /\ pc \notin {"L165", "L168", "L169"})
    => /\ err # TypeError
       /\ lik = [type |-> "tuple", items |-> <<Lower(ArgName)>> \o ArgAux]

====
